---- MODULE Spec2Model ----
(***************************************************************************)
(* A model of the software rasterizer's frame loop (main), its draw call   *)
(* (render), the vertex and fragment shader entry points, and the         *)
(* framebuffer they write to.                                              *)
(*                                                                         *)
(* Numbers.  The program computes in f32.  The model computes in fixed     *)
(* point on integers:                                                      *)
(*   - lengths and matrix entries are integers in units of 1/LenOne;       *)
(*     a 4x4 matrix stands for the real matrix times a uniform factor,     *)
(*     which the perspective divide cancels;                               *)
(*   - angles are in milliradians, sines and cosines in thousandths;       *)
(*   - a value produced by the perspective divide is a "float": either     *)
(*     <<"fin", v>> (v in units of 1/FOne), <<"inf", 1>>, <<"inf", -1>>    *)
(*     or <<"nan", 0>>, with the IEEE rules for division by zero,          *)
(*     0 * inf, inf - inf and comparisons with NaN.                        *)
(***************************************************************************)
EXTENDS Integers, Sequences, FiniteSets, TLC

(***************************************************************************)
(* Bounds of the model (not program constants).                            *)
(***************************************************************************)
\* frames the loop may run before the window is closed
MaxTime == 2
\* length of the longest vertex array the mesh provider may hand over
MaxVerts == 6
\* largest material index render is called with when called directly
MaxIndex == 9
\* keys held down together in one frame
MaxKeys == 1

(***************************************************************************)
(* Fixed-point units.                                                      *)
(***************************************************************************)
\* one length unit
LenOne == 10 ^ 1
\* one pixel, and 1.0 of a normalized device x or y
FOne == 2 ^ 3
\* 1.0 of a normalized device depth
ZOne == 10 ^ 3
\* 1.0 of a barycentric weight
WOne == 2 ^ 8

Abs(x) == IF x < 0 THEN -x ELSE x

Sign(x) == IF x < 0 THEN -1 ELSE IF x > 0 THEN 1 ELSE 0

Min2(a, b) == IF a < b THEN a ELSE b

Max2(a, b) == IF a < b THEN b ELSE a

\* integer quotient rounded toward zero
TDiv(a, b) == Sign(a) * Sign(b) * (Abs(a) \div Abs(b))

\* floor of the square root
ISqrt(n) == CHOOSE r \in 0..(n + 1) : r * r <= n /\ (r + 1) * (r + 1) > n

(***************************************************************************)
(* f32 values with the IEEE special cases.                                 *)
(***************************************************************************)
Fin(v) == <<"fin", v>>

NaN == <<"nan", 0>>

PosInf == <<"inf", 1>>

NegInf == <<"inf", -1>>

IsFin(f) == f[1] = "fin"

IsNaN(f) == f[1] = "nan"

\* x / w on two finite values of the same unit, the quotient in units of 1/one
FDiv(x, w, one) ==
  IF w = 0
    THEN (IF x = 0 THEN NaN ELSE IF x > 0 THEN PosInf ELSE NegInf)
    ELSE Fin(TDiv(x * one, w))

\* c * f for a finite coefficient c (an integer) and a float f
FScale(c, f) ==
  IF IsNaN(f) THEN NaN
  ELSE IF IsFin(f) THEN Fin(c * f[2])
  ELSE IF c = 0 THEN NaN
  ELSE <<"inf", Sign(c) * f[2]>>

FAdd(a, b) ==
  IF IsNaN(a) \/ IsNaN(b) THEN NaN
  ELSE IF IsFin(a) /\ IsFin(b) THEN Fin(a[2] + b[2])
  ELSE IF IsFin(a) THEN b
  ELSE IF IsFin(b) THEN a
  ELSE IF a[2] = b[2] THEN a
  ELSE NaN

\* f / d for a positive integer d
FHalve(f, d) == IF IsFin(f) THEN Fin(TDiv(f[2], d)) ELSE f

\* a < b; false whenever either side is NaN
FLess(a, b) ==
  IF IsNaN(a) \/ IsNaN(b) THEN FALSE
  ELSE IF IsFin(a) /\ IsFin(b) THEN a[2] < b[2]
  ELSE IF IsFin(a) THEN b[2] > 0
  ELSE IF IsFin(b) THEN a[2] < 0
  ELSE a[2] < b[2]

(***************************************************************************)
(* Vectors and 4x4 matrices (sequences of rows).                           *)
(***************************************************************************)
Dot3(a, b) == a[1] * b[1] + a[2] * b[2] + a[3] * b[3]

Cross(a, b) ==
  << a[2] * b[3] - a[3] * b[2],
     a[3] * b[1] - a[1] * b[3],
     a[1] * b[2] - a[2] * b[1] >>

Sub3(a, b) == << a[1] - b[1], a[2] - b[2], a[3] - b[3] >>

Magnitude(v) == ISqrt(Dot3(v, v))

MatVec(m, v) ==
  [r \in 1..4 |-> m[r][1] * v[1] + m[r][2] * v[2] + m[r][3] * v[3] + m[r][4] * v[4]]

MatMul(a, b) ==
  [r \in 1..4 |->
    [c \in 1..4 |->
      a[r][1] * b[1][c] + a[r][2] * b[2][c] + a[r][3] * b[3][c] + a[r][4] * b[4][c]]]

\* the fixed-point product of two matrices whose unit is `one`
MatMulFx(a, b, one) ==
  [r \in 1..4 |-> [c \in 1..4 |-> TDiv(MatMul(a, b)[r][c], one)]]

\* a matrix of integers times a vector of floats, every term of every row
\* computed (0 * inf = NaN, as in the dense product)
MatVecF(m, v) ==
  [r \in 1..4 |->
    FAdd(FAdd(FScale(m[r][1], v[1]), FScale(m[r][2], v[2])),
         FAdd(FScale(m[r][3], v[3]), FScale(m[r][4], v[4])))]

(***************************************************************************)
(* f32::cos, f32::sin: angle in milliradians, result in thousandths.       *)
(***************************************************************************)
CosQuadrant(x) ==
  LET x2 == (x * x) \div 1000
      x4 == (x2 * x2) \div 1000
      x6 == (x4 * x2) \div 1000
  IN 1000 - (x2 \div 2) + (x4 \div 24) - (x6 \div 720)

SinQuadrant(x) ==
  LET x2 == (x * x) \div 1000
      x3 == (x2 * x) \div 1000
      x5 == (x3 * x2) \div 1000
      x7 == (x5 * x2) \div 1000
  IN x - (x3 \div 6) + (x5 \div 120) - (x7 \div 5040)

Cos(angle) ==
  LET a == angle % 6283
      b == IF a > 3142 THEN 6283 - a ELSE a
  IN IF b > 1571 THEN -CosQuadrant(3142 - b) ELSE CosQuadrant(b)

Sin(angle) ==
  LET a == angle % 6283
      b == IF a > 3142 THEN a - 3142 ELSE a
      v == IF b > 1571 THEN SinQuadrant(3142 - b) ELSE SinQuadrant(b)
  IN IF a > 3142 THEN -v ELSE v

(***************************************************************************)
(* Matrix builders (main.rs).                                              *)
(***************************************************************************)
\* unit of the result: LenOne.  translation and scale in units of 1/LenOne,
\* rotation in milliradians.
create_model_matrix(translation, scale, rotation) ==
  LET sin_x == Sin(rotation[1])
      cos_x == Cos(rotation[1])
      sin_y == Sin(rotation[2])
      cos_y == Cos(rotation[2])
      sin_z == Sin(rotation[3])
      cos_z == Cos(rotation[3])
      rotation_matrix_x ==
        << <<1000, 0, 0, 0>>,
           <<0, cos_x, -sin_x, 0>>,
           <<0, sin_x, cos_x, 0>>,
           <<0, 0, 0, 1000>> >>
      rotation_matrix_y ==
        << <<cos_y, 0, sin_y, 0>>,
           <<0, 1000, 0, 0>>,
           <<-sin_y, 0, cos_y, 0>>,
           <<0, 0, 0, 1000>> >>
      rotation_matrix_z ==
        << <<cos_z, -sin_z, 0, 0>>,
           <<sin_z, cos_z, 0, 0>>,
           <<0, 0, 1000, 0>>,
           <<0, 0, 0, 1000>> >>
      rotation_matrix ==
        MatMulFx(MatMulFx(rotation_matrix_z, rotation_matrix_y, 1000),
                 rotation_matrix_x, 1000)
      transform_matrix ==
        << <<scale, 0, 0, translation[1]>>,
           <<0, scale, 0, translation[2]>>,
           <<0, 0, scale, translation[3]>>,
           <<0, 0, 0, LenOne>> >>
  IN MatMulFx(transform_matrix, rotation_matrix, 1000)

\* nalgebra_glm::look_at (right-handed), times Magnitude(center - eye) * LenOne.
\* The three axes are the unnormalised f = center - eye, s = f x up and
\* u = (s x f) / |f|; eye, center in units of 1/LenOne, up a unit vector.
look_at(eye, center, up) ==
  LET f == Sub3(center, eye)
      n == Magnitude(f)
      s == Cross(f, up)
      sf == Cross(s, f)
      u == << TDiv(sf[1], n), TDiv(sf[2], n), TDiv(sf[3], n) >>
  IN << << LenOne * s[1], LenOne * s[2], LenOne * s[3], -Dot3(s, eye) >>,
        << LenOne * u[1], LenOne * u[2], LenOne * u[3], -Dot3(u, eye) >>,
        << -LenOne * f[1], -LenOne * f[2], -LenOne * f[3], Dot3(f, eye) >>,
        << 0, 0, 0, n * LenOne >> >>

\* nalgebra_glm::perspective, in tenths: fov in milliradians, aspect as a
\* fraction, near and far in units of 1/LenOne
perspective(fov, aspect_num, aspect_den, near, far) ==
  LET half == fov \div 2
      f == TDiv(10 * Cos(half), Sin(half))
  IN << << TDiv(f * aspect_den, aspect_num), 0, 0, 0 >>,
        << 0, f, 0, 0 >>,
        << 0, 0, TDiv(10 * (far + near), near - far),
                 TDiv(2 * 10 * far * near, (near - far) * LenOne) >>,
        << 0, 0, -10, 0 >> >>

create_perspective_matrix(window_width, window_height) ==
  LET fov == TDiv(45 * 3142, 180)
      near == 1
      far == 1000 * LenOne
  IN perspective(fov, window_width, window_height, near, far)

\* in halves
create_viewport_matrix(width, height) ==
  << << width, 0, 0, width >>,
     << 0, -height, 0, height >>,
     << 0, 0, 2, 0 >>,
     << 0, 0, 0, 2 >> >>

(***************************************************************************)
(* Vertex shader (shaders.rs).                                             *)
(***************************************************************************)
Minor3(m, r, c) ==
  LET rs == IF r = 1 THEN <<2, 3>> ELSE IF r = 2 THEN <<1, 3>> ELSE <<1, 2>>
      cs == IF c = 1 THEN <<2, 3>> ELSE IF c = 2 THEN <<1, 3>> ELSE <<1, 2>>
  IN m[rs[1]][cs[1]] * m[rs[2]][cs[2]] - m[rs[1]][cs[2]] * m[rs[2]][cs[1]]

Det3(m) ==
  m[1][1] * Minor3(m, 1, 1) - m[1][2] * Minor3(m, 1, 2) + m[1][3] * Minor3(m, 1, 3)

\* mat4_to_mat3(m).transpose().try_inverse().unwrap_or(Mat3::identity()),
\* unit LenOne for a matrix m of unit LenOne
normal_matrix_of(m) ==
  LET t == [r \in 1..3 |-> [c \in 1..3 |-> m[c][r]]]
      d == Det3(t)
      sgn(r, c) == IF (r + c) % 2 = 0 THEN 1 ELSE -1
  IN IF d = 0
       THEN [r \in 1..3 |-> [c \in 1..3 |-> IF r = c THEN LenOne ELSE 0]]
       ELSE [r \in 1..3 |->
              [c \in 1..3 |-> TDiv(sgn(r, c) * Minor3(t, c, r) * LenOne * LenOne, d)]]

\* projection * view * model, each product brought back to the unit of
\* its left factor times the unit of the view matrix
clip_matrix(uniforms) ==
  MatMulFx(MatMulFx(uniforms.projection_matrix, uniforms.view_matrix, 10),
           uniforms.model_matrix, LenOne)

\* x and y in units of 1/FOne pixel, z in units of 1/ZOne
vertex_shader(vertex, uniforms) ==
  LET position ==
        << vertex.position[1], vertex.position[2], vertex.position[3], LenOne >>
      transformed == MatVec(clip_matrix(uniforms), position)
      w == transformed[4]
      transformed_position ==
        << FDiv(transformed[1], w, FOne), FDiv(transformed[2], w, FOne),
           FDiv(transformed[3], w, ZOne), Fin(FOne) >>
      screen_position == MatVecF(uniforms.viewport_matrix, transformed_position)
      normal_matrix == normal_matrix_of(uniforms.model_matrix)
      transformed_normal ==
        [r \in 1..3 |->
          TDiv(normal_matrix[r][1] * vertex.normal[1]
               + normal_matrix[r][2] * vertex.normal[2]
               + normal_matrix[r][3] * vertex.normal[3], LenOne)]
  IN [ position |-> vertex.position,
       normal |-> vertex.normal,
       transformed_position |->
         << FHalve(screen_position[1], 2), FHalve(screen_position[2], 2),
            FHalve(screen_position[3], 2) >>,
       transformed_normal |-> transformed_normal ]

\* the homogeneous w that vertex_shader divides by
clip_w(vertex, uniforms) ==
  MatVec(clip_matrix(uniforms),
         << vertex.position[1], vertex.position[2], vertex.position[3], LenOne >>)[4]

(***************************************************************************)
(* Triangle rasterizer: bounding box of the three screen positions, one    *)
(* candidate per pixel centre, inside when the three barycentric weights   *)
(* are non-negative.  triangle() receives the three vertices only          *)
(* (main.rs:130), so the box is not cut to a framebuffer.  A weight that   *)
(* is NaN is not >= 0: a vertex at a non-finite position gives no          *)
(* fragment, and so does a triangle of zero area.                          *)
(***************************************************************************)
FloorDiv(a, b) == a \div b

CeilDiv(a, b) == -((-a) \div b)

edge_function(a, b, p) ==
  (p[1] - a[1]) * (b[2] - a[2]) - (p[2] - a[2]) * (b[1] - a[1])

triangle(v1, v2, v3) ==
  LET A == v1.transformed_position
      B == v2.transformed_position
      C == v3.transformed_position
      finite == \A q \in {A, B, C} : IsFin(q[1]) /\ IsFin(q[2]) /\ IsFin(q[3])
      a == << A[1][2], A[2][2], A[3][2] >>
      b == << B[1][2], B[2][2], B[3][2] >>
      c == << C[1][2], C[2][2], C[3][2] >>
      min_x == FloorDiv(Min2(a[1], Min2(b[1], c[1])), FOne)
      min_y == FloorDiv(Min2(a[2], Min2(b[2], c[2])), FOne)
      max_x == CeilDiv(Max2(a[1], Max2(b[1], c[1])), FOne)
      max_y == CeilDiv(Max2(a[2], Max2(b[2], c[2])), FOne)
      nx == max_x - min_x + 1
      ny == max_y - min_y + 1
      area == edge_function(a, b, c)
      centre(px) == << px[1] * FOne + (FOne \div 2), px[2] * FOne + (FOne \div 2) >>
      e1(px) == edge_function(b, c, centre(px))
      e2(px) == edge_function(c, a, centre(px))
      e3(px) == edge_function(a, b, centre(px))
      w1(px) == TDiv(e1(px) * WOne, area)
      w2(px) == TDiv(e2(px) * WOne, area)
      w3(px) == TDiv(e3(px) * WOne, area)
      inside(px) ==
        /\ e1(px) * Sign(area) >= 0
        /\ e2(px) * Sign(area) >= 0
        /\ e3(px) * Sign(area) >= 0
      mix(px, x1, x2, x3) ==
        LET total == w1(px) + w2(px) + w3(px)
        IN IF total = 0 THEN x1
           ELSE TDiv(w1(px) * x1 + w2(px) * x2 + w3(px) * x3, total)
      candidates ==
        [k \in 1..(nx * ny) |-> << min_x + ((k - 1) % nx), min_y + ((k - 1) \div nx) >>]
      normal(px) ==
        [d \in 1..3 |-> mix(px, v1.transformed_normal[d], v2.transformed_normal[d],
                                 v3.transformed_normal[d])]
      intensity(px) ==
        LET n == normal(px)
            len == Magnitude(n)
        IN IF len = 0 THEN 0
           ELSE Max2(0, Min2(FOne, TDiv(n[3] * FOne, len)))
      fragment(px) ==
        [ position |-> << Fin(px[1]), Fin(px[2]) >>,
          depth |-> Fin(mix(px, a[3], b[3], c[3])),
          vertex_position |->
            [d \in 1..3 |-> mix(px, v1.position[d], v2.position[d], v3.position[d])],
          intensity |-> intensity(px) ]
      covered == SelectSeq(candidates, inside)
  IN IF ~finite \/ area = 0
       THEN << >>
       ELSE [k \in 1..Len(covered) |-> fragment(covered[k])]

(***************************************************************************)
(* Color: channels in 0..255, scaled by an intensity (in units of 1/FOne)  *)
(* with clamping, interpolated by a factor (in thousandths), and packed    *)
(* as 0xRRGGBB.                                                            *)
(***************************************************************************)
Clamp255(v) == Max2(0, Min2(255, v))

Color_new(r, g, b) == << r, g, b >>

Color_mul(c, intensity) ==
  [k \in 1..3 |-> Clamp255(TDiv(c[k] * intensity, FOne))]

Color_lerp(c, other, t) ==
  [k \in 1..3 |-> Clamp255(c[k] + TDiv((other[k] - c[k]) * t, 1000))]

to_hex(c) == c[1] * 65536 + c[2] * 256 + c[3]

(***************************************************************************)
(* The noise field (fastnoise_lite) and the seeded generator (rand) are    *)
(* libraries: pure functions of their arguments, here a fixed hash.        *)
(* Coordinates in units of 1/LenOne, values in thousandths of [-1, 1].     *)
(***************************************************************************)
get_noise_3d(x, y, z) == (((x * 31 + y * 17 + z * 7) % 21) * 100) - 1000

get_noise_2d(x, y) == get_noise_3d(x, y, 0)

\* StdRng::seed_from_u64(seed).gen_range(0..=100)
gen_range_0_100(seed) == (seed * 37 + 11) % 101

\* a depth (units of 1/ZOne) as a coordinate in units of 1/LenOne
DepthCoord(fragment) == TDiv(fragment.depth[2] * LenOne, ZOne)

(***************************************************************************)
(* Fragment shaders (shaders.rs).                                          *)
(***************************************************************************)
black_and_white(fragment, uniforms) ==
  LET seed == TDiv(uniforms.time * fragment.vertex_position[2]
                   * fragment.vertex_position[1], LenOne * LenOne)
      random_number == gen_range_0_100(Abs(seed))
      black_or_white ==
        IF random_number < 50 THEN Color_new(0, 0, 0) ELSE Color_new(255, 255, 255)
  IN Color_mul(black_or_white, fragment.intensity)

dalmata_shader(fragment, uniforms) ==
  LET zoom == 100
      ox == 0
      oy == 0
      x == fragment.vertex_position[1]
      y == fragment.vertex_position[2]
      noise_value == get_noise_2d((x + ox) * zoom, (y + oy) * zoom)
      spot_threshold == 500
      spot_color == Color_new(255, 255, 255)
      base_color == Color_new(0, 0, 0)
      noise_color == IF noise_value < spot_threshold THEN spot_color ELSE base_color
  IN Color_mul(noise_color, fragment.intensity)

cloud_shader(fragment, uniforms) ==
  LET zoom == 100
      ox == 100 * LenOne
      oy == 100 * LenOne
      x == fragment.vertex_position[1]
      y == fragment.vertex_position[2]
      t == TDiv(uniforms.time * LenOne, 2)
      noise_value == get_noise_2d(x * zoom + ox + t, y * zoom + oy)
      cloud_threshold == 500
      cloud_color == Color_new(255, 255, 255)
      sky_color == Color_new(30, 97, 145)
      noise_color == IF noise_value > cloud_threshold THEN cloud_color ELSE sky_color
  IN Color_mul(noise_color, fragment.intensity)

cellular_shader(fragment, uniforms) ==
  LET zoom == 30
      ox == 50 * LenOne
      oy == 50 * LenOne
      x == fragment.vertex_position[1]
      y == fragment.vertex_position[2]
      cell_noise_value == Abs(get_noise_2d(x * zoom + ox, y * zoom + oy))
      cell_color_1 == Color_new(85, 107, 47)
      cell_color_2 == Color_new(124, 252, 0)
      cell_color_3 == Color_new(34, 139, 34)
      cell_color_4 == Color_new(173, 255, 47)
      final_color ==
        IF cell_noise_value < 150 THEN cell_color_1
        ELSE IF cell_noise_value < 700 THEN cell_color_2
        ELSE IF cell_noise_value < 750 THEN cell_color_3
        ELSE cell_color_4
  IN Color_mul(final_color, fragment.intensity)

lava_shader(fragment, uniforms) ==
  LET bright_color == Color_new(255, 240, 0)
      dark_color == Color_new(130, 20, 0)
      position ==
        << fragment.vertex_position[1], fragment.vertex_position[2],
           DepthCoord(fragment) >>
      base_frequency == 200
      pulsate_amplitude == 500
      t == uniforms.time * 10
      pulsate ==
        TDiv(TDiv(Sin(TDiv(t * base_frequency, 1000)) * pulsate_amplitude, 1000)
             * LenOne, 1000)
      zoom == 1000
      noise_value1 ==
        get_noise_3d(position[1] * zoom, position[2] * zoom,
                     (position[3] + pulsate) * zoom)
      noise_value2 ==
        get_noise_3d((position[1] + 1000 * LenOne) * zoom,
                     (position[2] + 1000 * LenOne) * zoom,
                     (position[3] + 1000 * LenOne + pulsate) * zoom)
      noise_value == TDiv(noise_value1 + noise_value2, 2)
      color == Color_lerp(dark_color, bright_color, noise_value)
  IN Color_mul(color, fragment.intensity)

rocky_planet_shader(fragment, uniforms) ==
  LET zoom == 50
      ox == 10 * LenOne
      oy == 20 * LenOne
      x == fragment.vertex_position[1]
      y == fragment.vertex_position[2]
      noise_value == Abs(get_noise_2d(x * zoom + ox, y * zoom + oy))
      mountain_color == Color_new(139, 69, 19)
      plain_color == Color_new(205, 133, 63)
      lowland_color == Color_new(222, 184, 135)
      final_color ==
        IF noise_value < 200 THEN lowland_color
        ELSE IF noise_value < 500 THEN plain_color
        ELSE mountain_color
  IN Color_mul(final_color, fragment.intensity)

gaseous_planet_shader(fragment, uniforms) ==
  LET time == uniforms.time
      x == fragment.vertex_position[1]
      y == fragment.vertex_position[2]
      z == DepthCoord(fragment)
      noise_value ==
        Abs(get_noise_3d(TDiv(x * 3, 10), TDiv((y + time) * 3, 10), TDiv(z * 3, 10)))
      gas_color_1 == Color_new(135, 206, 250)
      gas_color_2 == Color_new(176, 224, 230)
      gas_color_3 == Color_new(255, 228, 196)
      final_color ==
        IF noise_value < 400 THEN gas_color_1
        ELSE IF noise_value < 700 THEN gas_color_2
        ELSE gas_color_3
  IN Color_mul(final_color, fragment.intensity)

solar_shader(fragment, uniforms) ==
  LET zoom == 20
      time == uniforms.time * 2
      x == fragment.vertex_position[1]
      y == fragment.vertex_position[2]
      z == DepthCoord(fragment)
      noise_value1 == Abs(get_noise_3d(x * zoom + time, y * zoom, z * zoom))
      noise_value2 ==
        Abs(get_noise_3d((x + 50 * LenOne) * zoom, (y + 50 * LenOne) * zoom,
                         (z + time) * zoom))
      combined_noise == TDiv(noise_value1 + noise_value2, 2)
      core_color == Color_new(255, 140, 0)
      flare_color == Color_new(255, 69, 0)
      corona_color == Color_new(255, 215, 0)
      final_color ==
        IF combined_noise < 300 THEN corona_color
        ELSE IF combined_noise < 600 THEN core_color
        ELSE flare_color
  IN Color_mul(final_color, fragment.intensity)

earth_shader(fragment, uniforms) ==
  LET zoom == 20
      time == uniforms.time
      x == fragment.vertex_position[1]
      y == fragment.vertex_position[2]
      z == DepthCoord(fragment)
      noise_value1 == Abs(get_noise_3d(x * zoom + time, y * zoom, z * zoom))
      noise_value2 ==
        Abs(get_noise_3d((x + 50 * LenOne) * zoom, (y + 50 * LenOne) * zoom,
                         (z + time) * zoom))
      combined_noise == TDiv(noise_value1 + noise_value2, 2)
      ocean_color == Color_new(0, 105, 148)
      land_color == Color_new(34, 139, 34)
      mountain_color == Color_new(139, 69, 19)
      final_color ==
        IF combined_noise < 300 THEN ocean_color
        ELSE IF combined_noise < 600 THEN land_color
        ELSE mountain_color
  IN Color_mul(final_color, fragment.intensity)

\* fragment_shader with the arms for 7 and for the rest exchanged
fragment_shader_shifted(fragment, uniforms, sphere_index) ==
  CASE sphere_index = 0 -> earth_shader(fragment, uniforms)
    [] sphere_index = 1 -> dalmata_shader(fragment, uniforms)
    [] sphere_index = 2 -> cloud_shader(fragment, uniforms)
    [] sphere_index = 3 -> cellular_shader(fragment, uniforms)
    [] sphere_index = 4 -> lava_shader(fragment, uniforms)
    [] sphere_index = 5 -> rocky_planet_shader(fragment, uniforms)
    [] sphere_index = 6 -> solar_shader(fragment, uniforms)
    [] sphere_index = 7 -> black_and_white(fragment, uniforms)
    [] OTHER -> gaseous_planet_shader(fragment, uniforms)

fragment_shader(fragment, uniforms, sphere_index) ==
  CASE sphere_index = 0 -> earth_shader(fragment, uniforms)
    [] sphere_index = 1 -> dalmata_shader(fragment, uniforms)
    [] sphere_index = 2 -> cloud_shader(fragment, uniforms)
    [] sphere_index = 3 -> cellular_shader(fragment, uniforms)
    [] sphere_index = 4 -> lava_shader(fragment, uniforms)
    [] sphere_index = 5 -> rocky_planet_shader(fragment, uniforms)
    [] sphere_index = 6 -> solar_shader(fragment, uniforms)
    [] sphere_index = 7 -> gaseous_planet_shader(fragment, uniforms)
    [] OTHER -> black_and_white(fragment, uniforms)

(***************************************************************************)
(* Framebuffer: color buffer, depth buffer, background color and the       *)
(* current-draw-color register.  Pixel (x, y) is entry y * width + x + 1.  *)
(***************************************************************************)
Framebuffer_new(width, height) ==
  [ width |-> width,
    height |-> height,
    buffer |-> [k \in 1..(width * height) |-> 0],
    zbuffer |-> [k \in 1..(width * height) |-> PosInf],
    background_color |-> 0,
    current_color |-> 16777215 ]

set_background_color(fb, color) == [fb EXCEPT !.background_color = color]

set_current_color(fb, color) == [fb EXCEPT !.current_color = color]

clear(fb) ==
  [fb EXCEPT !.buffer = [k \in 1..(fb.width * fb.height) |-> fb.background_color],
             !.zbuffer = [k \in 1..(fb.width * fb.height) |-> PosInf]]

point(fb, x, y, depth) ==
  LET index == y * fb.width + x + 1
  IN IF FLess(depth, fb.zbuffer[index])
       THEN [fb EXCEPT !.buffer[index] = fb.current_color,
                       !.zbuffer[index] = depth]
       ELSE fb

(***************************************************************************)
(* Camera: eye, center, up.  On the integer lattice a rotation is a        *)
(* quarter turn and a zoom step is the shortest lattice vector along       *)
(* eye - center: orbit turns eye about center by one quarter turn in the   *)
(* direction of each non-zero angle, zoom moves eye one step toward        *)
(* (delta > 0) or away from (delta < 0) center and never onto it.          *)
(***************************************************************************)
RECURSIVE Gcd(_, _)
Gcd(a, b) == IF b = 0 THEN a ELSE Gcd(b, a % b)

Camera_new(eye, center, up) == [eye |-> eye, center |-> center, up |-> up]

RotateYaw(v, dir) ==
  IF dir > 0 THEN << v[3], v[2], -v[1] >>
  ELSE IF dir < 0 THEN << -v[3], v[2], v[1] >>
  ELSE v

RotatePitch(v, dir) ==
  IF dir > 0 THEN << v[1], -v[3], v[2] >>
  ELSE IF dir < 0 THEN << v[1], v[3], -v[2] >>
  ELSE v

orbit(camera, delta_yaw, delta_pitch) ==
  LET radius_vector == Sub3(camera.eye, camera.center)
      turned == RotatePitch(RotateYaw(radius_vector, delta_yaw), delta_pitch)
  IN [camera EXCEPT !.eye = << camera.center[1] + turned[1],
                               camera.center[2] + turned[2],
                               camera.center[3] + turned[3] >>]

zoom(camera, delta) ==
  LET d == Sub3(camera.eye, camera.center)
      g == Gcd(Abs(d[1]), Gcd(Abs(d[2]), Abs(d[3])))
      step == << d[1] \div g, d[2] \div g, d[3] \div g >>
      k == IF delta > 0 THEN (IF g > 1 THEN -1 ELSE 0)
           ELSE IF delta < 0 THEN 1 ELSE 0
  IN [camera EXCEPT !.eye = << camera.eye[1] + k * step[1],
                               camera.eye[2] + k * step[2],
                               camera.eye[3] + k * step[3] >>]

(***************************************************************************)
(* main: constants and scene table.                                        *)
(***************************************************************************)
window_width == 800

window_height == 600

\* the program's framebuffer is 800 x 600; the model's is small
framebuffer_width == 2

framebuffer_height == 2

background == 3355477

\* (position, scale, speed, phase): position and scale in units of
\* 1/LenOne, speed in thousandths, phase in milliradians
sphere_params ==
  << [position |-> <<0, 0, 0>>, scale |-> 7, speed |-> 0, phase |-> 0],
     [position |-> <<-20, 0, 0>>, scale |-> 5, speed |-> 200, phase |-> 0],
     [position |-> <<20, 0, 0>>, scale |-> 5, speed |-> 200, phase |-> 1000],
     [position |-> <<0, 20, 0>>, scale |-> 5, speed |-> 200, phase |-> 2000],
     [position |-> <<0, -20, 0>>, scale |-> 5, speed |-> 200, phase |-> 3000],
     [position |-> <<15, 15, 0>>, scale |-> 5, speed |-> 200, phase |-> 4000],
     [position |-> <<-15, -15, 0>>, scale |-> 5, speed |-> 200, phase |-> 5000] >>

NumSpheres == Len(sphere_params)

initial_camera == Camera_new(<<0, 30, 50>>, <<0, 0, 0>>, <<0, 1, 0>>)

create_noise == [seed |-> 1337, noise_type |-> "OpenSimplex2"]

\* the orbit about the instance's own position (as create_orbit_matrix has it,
\* in the plane of the screen)
orbit_position_centered(params, time) ==
  LET orbit_radius == Magnitude(params.position)
      orbit_angle == TDiv(time * params.speed, 100) + params.phase
  IN << params.position[1] + TDiv(orbit_radius * Cos(orbit_angle), 1000),
        params.position[2] + TDiv(orbit_radius * Sin(orbit_angle), 1000),
        params.position[3] >>

\* the translation main hands to create_model_matrix for one instance
orbit_position_of(params, time) ==
  LET orbit_radius == Magnitude(params.position)
      orbit_angle == TDiv(time * params.speed, 100) + params.phase
  IN << TDiv(orbit_radius * Cos(orbit_angle), 1000),
        TDiv(orbit_radius * Sin(orbit_angle), 1000),
        params.position[3] >>

\* the Uniforms main builds for instance i (0-based)
uniforms_for(i, time, view, projection, viewport) ==
  LET params == sphere_params[i + 1]
      orbit_position == orbit_position_of(params, time)
      model_matrix == create_model_matrix(orbit_position, params.scale, <<0, 0, 0>>)
  IN [ model_matrix |-> model_matrix,
       view_matrix |-> view,
       projection_matrix |-> projection,
       viewport_matrix |-> viewport,
       time |-> time,
       noise |-> create_noise ]

\* the camera after the six key tests of one frame, in the order of the code
poll_camera(camera, keys) ==
  LET c1 == IF keys.Left THEN orbit(camera, 62, 0) ELSE camera
      c2 == IF keys.Right THEN orbit(c1, -62, 0) ELSE c1
      c3 == IF keys.Up THEN orbit(c2, 0, -62) ELSE c2
      c4 == IF keys.Down THEN orbit(c3, 0, 62) ELSE c3
      c5 == IF keys.W THEN zoom(c4, 1) ELSE c4
      c6 == IF keys.S THEN zoom(c5, -1) ELSE c5
  IN c6

KeyNames == {"Left", "Right", "Up", "Down", "W", "S"}

\* the key states polled in one frame: at most MaxKeys keys are down at once
KeyStates ==
  { [Left |-> "Left" \in down, Right |-> "Right" \in down, Up |-> "Up" \in down,
     Down |-> "Down" \in down, W |-> "W" \in down, S |-> "S" \in down] :
    down \in { d \in SUBSET KeyNames : Cardinality(d) <= MaxKeys } }

\* a view matrix kept from the frame before
frame_view_matrix_cached(camera, previous) ==
  IF previous # << >> THEN previous
  ELSE look_at(camera.eye, camera.center, camera.up)

\* the view matrix of a frame
frame_view_matrix(camera, previous) ==
  look_at(camera.eye, camera.center, camera.up)

(***************************************************************************)
(* The mesh provider: a flat sequence of vertices.                         *)
(***************************************************************************)
\* triangles alternate between a large one in front of the camera and a
\* thin one whose first vertex lies next to the plane through the eye
PoolVertex(k) ==
  LET corner == (k - 1) % 3
      tri == (k - 1) \div 3
  IN [ position |->
         IF tri % 2 = 0
           THEN (IF corner = 0 THEN << -80, -60, 0 >>
                 ELSE IF corner = 1 THEN << 80, -60, 0 >>
                 ELSE << 0, 80, 0 >>)
           ELSE (IF corner = 0 THEN << 0, 45, 70 >>
                 ELSE IF corner = 1 THEN << -60, -60, 0 >>
                 ELSE << -20, -60, 0 >>),
       normal |-> << 0, 0, 1 >> ]

Mesh(n) == [k \in 1..n |-> PoolVertex(k)]

Meshes == { Mesh(n) : n \in 0..MaxVerts }

(***************************************************************************)
(* State.                                                                  *)
(***************************************************************************)
VARIABLES
  pc,                   \* where the program is
  caller,               \* "main", or "direct" when render is called on its own
  time,                 \* main: the frame counter
  camera,               \* main: the camera
  framebuffer,          \* the framebuffer
  vertex_arrays,        \* main: the mesh
  view_matrix,          \* main: the view matrix of the frame
  projection_matrix,    \* main: the projection matrix of the frame
  viewport_matrix,      \* main: the viewport matrix of the frame
  sphere_index,         \* main: i; render: sphere_index
  uniforms,             \* the Uniforms of the draw call
  transformed_vertices, \* render
  triangles,            \* render
  fragments,            \* render: the fragments not yet visited
  window_buffer,        \* what the window was last updated with
  \* history
  frag_tri,             \* per fragment of `fragments`, the triangle it is from
  last_call,            \* the last call made on the framebuffer
  shaded,               \* the fragment last shaded and what fragment_shader gave
  writes,               \* per pixel, the <<depth, color>> point calls since clear
  frame                 \* counts of this frame's clears and finished draw calls

vars ==
  << pc, caller, time, camera, framebuffer, vertex_arrays, view_matrix,
     projection_matrix, viewport_matrix, sphere_index, uniforms,
     transformed_vertices, triangles, fragments, window_buffer,
     frag_tri, last_call, shaded, writes, frame >>

NoMatrix == << >>

NoUniforms == [time |-> 0]

NoShaded == [index |-> -1]

NumPixels == framebuffer_width * framebuffer_height

NoWrites == [k \in 1..NumPixels |-> << >>]

NewFrame == [clears |-> 0, drawn |-> << >>, presented |-> FALSE]

\* f32 as usize: NaN and negatives to 0, too large to the maximum (which
\* the model puts at 2^30, above every coordinate it computes)
UsizeMax == 2 ^ 30

as_usize(f) ==
  IF IsNaN(f) THEN 0
  ELSE IF ~IsFin(f) THEN (IF f[2] > 0 THEN UsizeMax ELSE 0)
  ELSE IF f[2] < 0 THEN 0
  ELSE Min2(f[2], UsizeMax)

(***************************************************************************)
(* main, up to the loop.                                                   *)
(***************************************************************************)
Init ==
  /\ pc = "loop"
  /\ caller = "main"
  /\ time = 0
  /\ camera = initial_camera
  /\ framebuffer =
       set_background_color(Framebuffer_new(framebuffer_width, framebuffer_height),
                            background)
  /\ vertex_arrays \in Meshes
  /\ view_matrix = NoMatrix
  /\ projection_matrix = NoMatrix
  /\ viewport_matrix = NoMatrix
  /\ sphere_index = 0
  /\ uniforms = NoUniforms
  /\ transformed_vertices = << >>
  /\ triangles = << >>
  /\ fragments = << >>
  /\ window_buffer = << >>
  /\ frag_tri = << >>
  /\ last_call = [op |-> "set_background_color"]
  /\ shaded = NoShaded
  /\ writes = NoWrites
  /\ frame = NewFrame

unchanged_render ==
  UNCHANGED << transformed_vertices, triangles, fragments, frag_tri, shaded >>

(***************************************************************************)
(* main: one pass of the loop.                                             *)
(***************************************************************************)
\* the window is closed, or Escape is down
ExitLoop ==
  /\ pc = "loop"
  /\ pc' = "exit"
  /\ UNCHANGED << caller, time, camera, framebuffer, vertex_arrays, view_matrix,
                  projection_matrix, viewport_matrix, sphere_index, uniforms,
                  window_buffer, last_call, writes, frame >>
  /\ unchanged_render

\* time += 1 and the six key tests
PollInput ==
  /\ pc = "loop"
  /\ time < MaxTime
  /\ \E keys \in KeyStates :
       camera' = poll_camera(camera, keys)
  /\ time' = time + 1
  /\ frame' = NewFrame
  /\ pc' = "clear"
  /\ UNCHANGED << caller, framebuffer, vertex_arrays, view_matrix,
                  projection_matrix, viewport_matrix, sphere_index, uniforms,
                  window_buffer, last_call, writes >>
  /\ unchanged_render

\* a frame that does not clear
frame_clear_skip(fb) == fb

\* what main does to the framebuffer at the top of a frame
frame_clear(fb) == clear(fb)

ClearFrame ==
  /\ pc = "clear"
  /\ framebuffer' = frame_clear(framebuffer)
  /\ last_call' = [op |-> "clear"]
  /\ writes' = NoWrites
  /\ frame' = [frame EXCEPT !.clears = @ + 1]
  /\ pc' = "matrices"
  /\ UNCHANGED << caller, time, camera, vertex_arrays, view_matrix,
                  projection_matrix, viewport_matrix, sphere_index, uniforms,
                  window_buffer >>
  /\ unchanged_render

BuildMatrices ==
  /\ pc = "matrices"
  /\ view_matrix' = frame_view_matrix(camera, view_matrix)
  /\ projection_matrix' = create_perspective_matrix(window_width, window_height)
  /\ viewport_matrix' = create_viewport_matrix(framebuffer_width, framebuffer_height)
  /\ sphere_index' = 0
  /\ pc' = "instance"
  /\ UNCHANGED << caller, time, camera, framebuffer, vertex_arrays, uniforms,
                  window_buffer, last_call, writes, frame >>
  /\ unchanged_render

\* a for loop that clears before every draw call
BeginDraw_clearing ==
  /\ pc = "instance"
  /\ sphere_index < NumSpheres
  /\ uniforms' = uniforms_for(sphere_index, time, view_matrix, projection_matrix,
                              viewport_matrix)
  /\ framebuffer' = clear(framebuffer)
  /\ last_call' = [op |-> "clear"]
  /\ writes' = NoWrites
  /\ frame' = [frame EXCEPT !.clears = @ + 1]
  /\ pc' = "vertex"
  /\ UNCHANGED << caller, time, camera, vertex_arrays, view_matrix,
                  projection_matrix, viewport_matrix, sphere_index,
                  window_buffer >>
  /\ unchanged_render

\* the body of the for loop up to the call of render
BeginDraw ==
  /\ pc = "instance"
  /\ sphere_index < NumSpheres
  /\ uniforms' = uniforms_for(sphere_index, time, view_matrix, projection_matrix,
                              viewport_matrix)
  /\ pc' = "vertex"
  /\ UNCHANGED << caller, time, camera, framebuffer, vertex_arrays, view_matrix,
                  projection_matrix, viewport_matrix, sphere_index,
                  window_buffer, last_call, writes, frame >>
  /\ unchanged_render

\* window.update_with_buffer and the sleep
Present ==
  /\ pc = "instance"
  /\ sphere_index = NumSpheres
  /\ window_buffer' = framebuffer.buffer
  /\ frame' = [frame EXCEPT !.presented = TRUE]
  /\ pc' = "loop"
  /\ UNCHANGED << caller, time, camera, framebuffer, vertex_arrays, view_matrix,
                  projection_matrix, viewport_matrix, sphere_index, uniforms,
                  last_call, writes >>
  /\ unchanged_render

(***************************************************************************)
(* render.                                                                 *)
(***************************************************************************)
shade_vertices(vertex_array, unif) ==
  [k \in 1..Len(vertex_array) |-> vertex_shader(vertex_array[k], unif)]

\* a triangle from every index, not from every third
assemble_triangles_sliding(tv) ==
  LET len == Len(tv)
      starts == [j \in 1..len |-> j - 1]
      complete(i) == i + 2 < len
      kept == SelectSeq(starts, complete)
  IN [k \in 1..Len(kept) |-> << tv[kept[k] + 1], tv[kept[k] + 2], tv[kept[k] + 3] >>]

\* for i in (0..len).step_by(3) { if i + 2 < len { push [i, i + 1, i + 2] } }
assemble_triangles(tv) ==
  LET len == Len(tv)
      starts == [j \in 1..((len + 2) \div 3) |-> 3 * (j - 1)]
      complete(i) == i + 2 < len
      kept == SelectSeq(starts, complete)
  IN [k \in 1..Len(kept) |-> << tv[kept[k] + 1], tv[kept[k] + 2], tv[kept[k] + 3] >>]

RECURSIVE rasterize_from(_, _)
rasterize_from(tris, k) ==
  IF k > Len(tris) THEN << >>
  ELSE triangle(tris[k][1], tris[k][2], tris[k][3]) \o rasterize_from(tris, k + 1)

\* fragments.extend(triangle(..)) over the triangles, in order
rasterize(tris) == rasterize_from(tris, 1)

RECURSIVE sources_from(_, _)
sources_from(tris, k) ==
  IF k > Len(tris) THEN << >>
  ELSE [j \in 1..Len(triangle(tris[k][1], tris[k][2], tris[k][3])) |-> k]
       \o sources_from(tris, k + 1)

pixel_x(fragment) == as_usize(fragment.position[1])

pixel_y(fragment) == as_usize(fragment.position[2])

\* if x < framebuffer.width && y < framebuffer.height
in_bounds(fb, fragment) ==
  pixel_x(fragment) < fb.width /\ pixel_y(fragment) < fb.height

\* a fragment shaded without setting the draw color
shade_step_skip(fb, fragment, unif, index) == fb

\* the framebuffer after shading one fragment and setting the draw color
shade_step(fb, fragment, unif, index) ==
  set_current_color(fb, to_hex(fragment_shader(fragment, unif, index)))

\* a point call that passes the pixel row for the depth
point_step_flat(fb, fragment) ==
  point(fb, pixel_x(fragment), pixel_y(fragment), Fin(pixel_y(fragment)))

\* the framebuffer after the point call for one fragment
point_step(fb, fragment) ==
  point(fb, pixel_x(fragment), pixel_y(fragment), fragment.depth)

PixelIndex(fb, fragment) == pixel_y(fragment) * fb.width + pixel_x(fragment) + 1

unchanged_main ==
  UNCHANGED << caller, time, camera, vertex_arrays, view_matrix,
               projection_matrix, viewport_matrix, window_buffer >>

VertexStage ==
  /\ pc = "vertex"
  /\ transformed_vertices' = shade_vertices(vertex_arrays, uniforms)
  /\ pc' = "assemble"
  /\ unchanged_main
  /\ UNCHANGED << framebuffer, sphere_index, uniforms, triangles, fragments,
                  frag_tri, last_call, shaded, writes, frame >>

AssembleStage ==
  /\ pc = "assemble"
  /\ triangles' = assemble_triangles(transformed_vertices)
  /\ pc' = "raster"
  /\ unchanged_main
  /\ UNCHANGED << framebuffer, sphere_index, uniforms, transformed_vertices,
                  fragments, frag_tri, last_call, shaded, writes, frame >>

RasterStage ==
  /\ pc = "raster"
  /\ fragments' = rasterize(triangles)
  /\ frag_tri' = sources_from(triangles, 1)
  /\ pc' = "fragment"
  /\ unchanged_main
  /\ UNCHANGED << framebuffer, sphere_index, uniforms, transformed_vertices,
                  triangles, last_call, shaded, writes, frame >>

\* a fragment that fails the bounds test
DropFragment ==
  /\ pc = "fragment"
  /\ fragments # << >>
  /\ ~in_bounds(framebuffer, Head(fragments))
  /\ fragments' = Tail(fragments)
  /\ frag_tri' = Tail(frag_tri)
  /\ unchanged_main
  /\ UNCHANGED << pc, framebuffer, sphere_index, uniforms, transformed_vertices,
                  triangles, last_call, shaded, writes, frame >>

\* fragment_shader, to_hex, set_current_color
ShadeFragment ==
  /\ pc = "fragment"
  /\ fragments # << >>
  /\ in_bounds(framebuffer, Head(fragments))
  /\ framebuffer' = shade_step(framebuffer, Head(fragments), uniforms, sphere_index)
  /\ shaded' = [ index |-> sphere_index,
                 fragment |-> Head(fragments),
                 color |-> fragment_shader(Head(fragments), uniforms, sphere_index) ]
  /\ last_call' = [op |-> "set_current_color"]
  /\ pc' = "point"
  /\ unchanged_main
  /\ UNCHANGED << sphere_index, uniforms, transformed_vertices, triangles,
                  fragments, frag_tri, writes, frame >>

\* framebuffer.point(x, y, fragment.depth)
PointFragment ==
  /\ pc = "point"
  /\ framebuffer' = point_step(framebuffer, Head(fragments))
  /\ writes' = [writes EXCEPT ![PixelIndex(framebuffer, Head(fragments))] =
                  Append(@, [ depth |-> Head(fragments).depth,
                              color |-> to_hex(shaded.color),
                              position |-> Head(fragments).position,
                              index |-> sphere_index,
                              tri |-> Head(frag_tri) ])]
  /\ last_call' = [op |-> "point"]
  /\ fragments' = Tail(fragments)
  /\ frag_tri' = Tail(frag_tri)
  /\ pc' = "fragment"
  /\ unchanged_main
  /\ UNCHANGED << sphere_index, uniforms, transformed_vertices, triangles,
                  shaded, frame >>

\* render returns to the for loop of main
EndDraw ==
  /\ pc = "fragment"
  /\ fragments = << >>
  /\ caller = "main"
  /\ frame' = [frame EXCEPT !.drawn = Append(@, sphere_index)]
  /\ sphere_index' = sphere_index + 1
  /\ transformed_vertices' = << >>
  /\ triangles' = << >>
  /\ pc' = "instance"
  /\ unchanged_main
  /\ UNCHANGED << framebuffer, uniforms, fragments, frag_tri, last_call, shaded,
                  writes >>

Next ==
  \/ ExitLoop
  \/ PollInput
  \/ ClearFrame
  \/ BuildMatrices
  \/ BeginDraw
  \/ VertexStage
  \/ AssembleStage
  \/ RasterStage
  \/ DropFragment
  \/ ShadeFragment
  \/ PointFragment
  \/ EndDraw
  \/ Present

Spec == Init /\ [][Next]_vars

(***************************************************************************)
(* render called on its own, with any material index.                      *)
(***************************************************************************)
InitRender ==
  /\ pc = "call"
  /\ caller = "direct"
  /\ time = 1
  /\ camera \in { poll_camera(initial_camera, keys) : keys \in KeyStates }
  /\ framebuffer =
       clear(set_background_color(
               Framebuffer_new(framebuffer_width, framebuffer_height), background))
  /\ vertex_arrays \in Meshes
  /\ view_matrix = look_at(camera.eye, camera.center, camera.up)
  /\ projection_matrix = create_perspective_matrix(window_width, window_height)
  /\ viewport_matrix = create_viewport_matrix(framebuffer_width, framebuffer_height)
  /\ sphere_index = 0
  /\ uniforms = NoUniforms
  /\ transformed_vertices = << >>
  /\ triangles = << >>
  /\ fragments = << >>
  /\ window_buffer = << >>
  /\ frag_tri = << >>
  /\ last_call = [op |-> "clear"]
  /\ shaded = NoShaded
  /\ writes = NoWrites
  /\ frame = [NewFrame EXCEPT !.clears = 1]

\* render(&mut framebuffer, &uniforms, &vertex_array, sphere_index)
CallRender ==
  /\ pc = "call"
  /\ \E index \in 0..MaxIndex :
       /\ sphere_index' = index
       /\ uniforms' = uniforms_for(index % NumSpheres, time, view_matrix,
                                   projection_matrix, viewport_matrix)
  /\ pc' = "vertex"
  /\ UNCHANGED << caller, time, camera, framebuffer, vertex_arrays, view_matrix,
                  projection_matrix, viewport_matrix, window_buffer, last_call,
                  writes, frame >>
  /\ unchanged_render

ReturnRender ==
  /\ pc = "fragment"
  /\ fragments = << >>
  /\ caller = "direct"
  /\ pc' = "returned"
  /\ UNCHANGED << caller, time, camera, framebuffer, vertex_arrays, view_matrix,
                  projection_matrix, viewport_matrix, sphere_index, uniforms,
                  window_buffer, last_call, writes, frame >>
  /\ unchanged_render

NextRender ==
  \/ CallRender
  \/ VertexStage
  \/ AssembleStage
  \/ RasterStage
  \/ DropFragment
  \/ ShadeFragment
  \/ PointFragment
  \/ ReturnRender

SpecRender == InitRender /\ [][NextRender]_vars

(***************************************************************************)
(* Properties.                                                             *)
(***************************************************************************)
Pixels == 1..NumPixels

\* the point call of pixel k that leaves its color: the first one among
\* those of least depth, 0 when no call passes the depth test
Winner(k) ==
  LET ws == writes[k]
      wins(j) == /\ FLess(ws[j].depth, PosInf)
                 /\ \A i \in 1..(j - 1) : FLess(ws[j].depth, ws[i].depth)
                 /\ \A i \in (j + 1)..Len(ws) : ~FLess(ws[i].depth, ws[j].depth)
  IN IF \E j \in 1..Len(ws) : wins(j)
       THEN CHOOSE j \in 1..Len(ws) : wins(j)
       ELSE 0

\* C1: after any point calls on a pixel since the last clear, the pixel
\* holds the color that was set for the call of least depth, whichever
\* order the calls came in (the earlier one of two equal depths: a call
\* whose depth is not strictly less than the stored one changes nothing),
\* and the background color when no call passed.
CloserWins ==
  frame.clears > 0 =>
    \A k \in Pixels :
      framebuffer.buffer[k] =
        IF Winner(k) = 0 THEN framebuffer.background_color
        ELSE writes[k][Winner(k)].color

\* one pixel was written three times: a farther fragment after a closer
\* one (rejected) and a closer one after a farther one (accepted)
CloserWinsBothOrders ==
  \E k \in Pixels :
    /\ \E i, j \in 1..Len(writes[k]) :
         i < j /\ FLess(writes[k][i].depth, writes[k][j].depth)
    /\ \E i, j \in 1..Len(writes[k]) :
         /\ i < j
         /\ FLess(writes[k][j].depth, writes[k][i].depth)
         /\ Winner(k) = j

\* the least of the far sentinel and the depths written to pixel k
RECURSIVE MinDepth(_, _)
MinDepth(ws, least) ==
  IF ws = << >> THEN least
  ELSE MinDepth(Tail(ws), IF FLess(Head(ws).depth, least) THEN Head(ws).depth
                          ELSE least)

DepthIsMinimum ==
  frame.clears > 0 =>
    \A k \in Pixels : framebuffer.zbuffer[k] = MinDepth(writes[k], PosInf)

DepthStep ==
  pc # "clear" =>
    \A k \in Pixels : ~FLess(framebuffer.zbuffer[k], framebuffer'.zbuffer[k])

\* C7: between one clear and the next every depth entry is the least of
\* the far sentinel and the depths written to that pixel since the clear,
\* and no step other than a clear increases an entry.
DepthNeverIncreases == []DepthIsMinimum /\ [][DepthStep]_vars

\* in the second frame a pixel has taken three writes, one of them rejected
\* and one of them lowering the entry again
DepthLoweredTwice ==
  /\ time = 2
  /\ \E k \in Pixels :
       /\ Len(writes[k]) >= 3
       /\ \E i, j \in 1..Len(writes[k]) :
            i < j /\ FLess(writes[k][i].depth, writes[k][j].depth)
       /\ \E i, j \in 1..Len(writes[k]) :
            i < j /\ FLess(writes[k][j].depth, writes[k][i].depth)
       /\ framebuffer.zbuffer[k] # writes[k][1].depth

\* the fragment's position is finite and inside [0, width) x [0, height)
InFramebuffer(fb, fragment) ==
  /\ IsFin(fragment.position[1])
  /\ IsFin(fragment.position[2])
  /\ 0 <= fragment.position[1][2]
  /\ fragment.position[1][2] < fb.width
  /\ 0 <= fragment.position[2][2]
  /\ fragment.position[2][2] < fb.height

\* C2: a fragment whose position is outside the framebuffer rectangle, a
\* negative or non-finite coordinate included, is dropped: render calls
\* neither set_current_color nor point for it.
OutsideIsDropped ==
  /\ pc = "point" => InFramebuffer(framebuffer, Head(fragments))
  /\ shaded # NoShaded => InFramebuffer(framebuffer, shaded.fragment)

\* the material table: 0..7 are earth, dalmata, cloud, cellular, lava, rocky
\* planet, solar and gaseous, everything else is the static shader
MaterialTable(index, fragment, unif) ==
  IF index = 0 THEN earth_shader(fragment, unif)
  ELSE IF index = 1 THEN dalmata_shader(fragment, unif)
  ELSE IF index = 2 THEN cloud_shader(fragment, unif)
  ELSE IF index = 3 THEN cellular_shader(fragment, unif)
  ELSE IF index = 4 THEN lava_shader(fragment, unif)
  ELSE IF index = 5 THEN rocky_planet_shader(fragment, unif)
  ELSE IF index = 6 THEN solar_shader(fragment, unif)
  ELSE IF index = 7 THEN gaseous_planet_shader(fragment, unif)
  ELSE black_and_white(fragment, unif)

IsColor(c) == c \in [1..3 -> 0..255]

\* C3: for every material index fragment_shader returns a Color, the one
\* of the shader the table names for 0..7 and the one of the static shader
\* for every other index.
DispatchIsTotal ==
  shaded # NoShaded =>
    /\ IsColor(shaded.color)
    /\ shaded.color = MaterialTable(shaded.index, shaded.fragment, uniforms)

\* a fragment was shaded with an index outside 0..7 and is about to be written
DispatchFellBack ==
  /\ pc = "point"
  /\ shaded.index > 7
  /\ shaded.fragment = Head(fragments)

\* |w| <= 0.01: w is in units of 1 / (view_matrix[4][4] * LenOne)
NearZeroW(w, view) == Abs(w) * 100 <= view[4][4] * LenOne

\* a vertex of triangle tri of the mesh has a clip-space w next to zero
\* under the uniforms of instance index
DegenerateW(index, tri) ==
  LET unif == uniforms_for(index % NumSpheres, time, view_matrix,
                           projection_matrix, viewport_matrix)
  IN \E corner \in 1..3 :
       NearZeroW(clip_w(vertex_arrays[3 * (tri - 1) + corner], unif), view_matrix)

\* C4: a triangle with a vertex whose clip-space w is zero or next to zero
\* is not drawn: no pixel holds a color written on its behalf.
DegenerateWIsNoDraw ==
  frame.clears > 0 =>
    \A k \in Pixels :
      Winner(k) # 0 =>
        ~DegenerateW(writes[k][Winner(k)].index, writes[k][Winner(k)].tri)

Translation(m) == << m[1][4], m[2][4], m[3][4] >>

InDrawCall == caller = "main" /\ pc \in {"vertex", "assemble", "raster", "fragment", "point"}

\* C5 as first stated: the translation of an instance's model matrix is
\* center + radius * (cos(angle), sin(angle), 0), with radius = |center| and
\* angle = time * speed * 0.01 + phase.
OrbitAboutCenter ==
  InDrawCall =>
    LET params == sphere_params[sphere_index + 1]
        radius == Magnitude(params.position)
        angle == TDiv(time * params.speed, 100) + params.phase
    IN Translation(uniforms.model_matrix) =
         << params.position[1] + TDiv(radius * Cos(angle), 1000),
            params.position[2] + TDiv(radius * Sin(angle), 1000),
            params.position[3] >>

\* C5: the translation of an instance's model matrix is
\* (radius * cos(angle), radius * sin(angle), center.z), with radius = |center|
\* and angle = time * speed * 0.01 + phase: a point of the circle of that
\* radius about the world origin; for a center at the origin it is (0, 0, 0).
OrbitAboutOrigin ==
  InDrawCall =>
    LET params == sphere_params[sphere_index + 1]
        radius == Magnitude(params.position)
        angle == TDiv(time * params.speed, 100) + params.phase
        translation == Translation(uniforms.model_matrix)
    IN /\ translation = << TDiv(radius * Cos(angle), 1000),
                           TDiv(radius * Sin(angle), 1000),
                           params.position[3] >>
       /\ params.position = << 0, 0, 0 >> => translation = << 0, 0, 0 >>

\* a fragment of an instance whose center is off the origin is being written
\* in the second frame
OrbitingInstanceDrawn ==
  /\ InDrawCall
  /\ pc = "point"
  /\ time = 2
  /\ sphere_params[sphere_index + 1].position # << 0, 0, 0 >>
  /\ sphere_params[sphere_index + 1].speed # 0

\* from the construction of the frame's matrices to its presentation
InFramePhase ==
  caller = "main" /\ pc \in {"instance", "vertex", "assemble", "raster", "fragment", "point"}

ViewIsCurrent ==
  /\ InFramePhase =>
       view_matrix = look_at(camera.eye, camera.center, camera.up)
  /\ InDrawCall => uniforms.view_matrix = view_matrix

CameraStep ==
  /\ camera' # camera => pc = "loop" /\ pc' = "clear"
  /\ (InFramePhase /\ pc' # "loop") => view_matrix' = view_matrix

\* C6: the camera changes only in the key polling at the top of a frame,
\* before that frame's view matrix is built; the view matrix of every frame
\* is the look-at matrix of the camera as it is in that frame; every draw
\* call of the frame is handed that same matrix; and neither the camera nor
\* the view matrix changes from there to the presentation.
ViewFollowsCamera == []ViewIsCurrent /\ [][CameraStep]_vars

\* a fragment of a later instance is being written in the second frame,
\* after keys moved the camera in that frame
MovedCameraDrawn ==
  /\ time = 2
  /\ pc = "point"
  /\ caller = "main"
  /\ sphere_index > 0
  /\ camera # initial_camera
  /\ window_buffer # << >>
  /\ view_matrix # look_at(initial_camera.eye, initial_camera.center, initial_camera.up)

\* C8: every point call of render comes right after a set_current_color
\* call that carried the packed color fragment_shader gave for the same
\* fragment, so the register it reads is that fragment's color.
ColorSetBeforePoint ==
  /\ pc = "point" =>
       /\ last_call.op = "set_current_color"
       /\ shaded.fragment = Head(fragments)
       /\ shaded.index = sphere_index
       /\ framebuffer.current_color =
            to_hex(fragment_shader(Head(fragments), uniforms, sphere_index))
  /\ last_call.op = "point" =>
       framebuffer.current_color = to_hex(shaded.color)

\* a second fragment of a draw call is about to be written with a color
\* other than the one set for the fragment before it
SecondPointOfDraw ==
  /\ pc = "point"
  /\ \E k \in Pixels :
       /\ writes[k] # << >>
       /\ writes[k][Len(writes[k])].index = sphere_index
       /\ writes[k][Len(writes[k])].color # framebuffer.current_color

\* the instances that have written to the framebuffer, in the order of the writes
WriteOrderOK ==
  \A k \in Pixels :
    /\ \A j \in 1..Len(writes[k]) :
         IF pc \in {"fragment", "point"} THEN writes[k][j].index <= sphere_index
         ELSE writes[k][j].index < sphere_index
    /\ \A i, j \in 1..Len(writes[k]) :
         i < j => writes[k][i].index <= writes[k][j].index

\* C9: in a frame clear is called once, before the first draw call; the
\* draw calls run in index order, each one through vertex shading, then
\* assembly and rasterization, then its fragments, before the next begins;
\* no clear falls between draw calls; and the buffer is presented after the
\* last draw call.
FrameOrder ==
  /\ caller = "main" /\ pc \in {"matrices", "instance", "vertex", "assemble", "raster", "fragment", "point"} =>
       frame.clears = 1
  /\ InFramePhase =>
       /\ frame.drawn = [j \in 1..sphere_index |-> j - 1]
       /\ ~frame.presented
       /\ WriteOrderOK
  /\ caller = "main" /\ pc = "matrices" => frame.drawn = << >> /\ writes = NoWrites
  /\ caller = "main" /\ pc \in {"instance", "vertex"} =>
       transformed_vertices = << >> /\ triangles = << >> /\ fragments = << >>
  /\ caller = "main" /\ pc = "assemble" =>
       /\ Len(transformed_vertices) = Len(vertex_arrays)
       /\ triangles = << >>
       /\ fragments = << >>
  /\ caller = "main" /\ pc = "raster" => fragments = << >>
  /\ frame.presented =>
       /\ pc \in {"loop", "exit"}
       /\ frame.clears = 1
       /\ frame.drawn = [j \in 1..NumSpheres |-> j - 1]
       /\ window_buffer = framebuffer.buffer

\* the second frame has been presented with pixels drawn by several instances
SecondFramePresented ==
  /\ frame.presented
  /\ time = 2
  /\ \E k \in Pixels : Len(writes[k]) >= 2
  /\ \E k \in Pixels : window_buffer[k] # framebuffer.background_color

\* C10: render makes floor(n / 3) triangles out of n shaded vertices, the
\* k-th one (from 0) of vertices 3k, 3k + 1 and 3k + 2 in that order; one or
\* two vertices left over are ignored, so fewer than three vertices give no
\* triangle, no fragment and no write.
ConsecutiveTriples ==
  /\ pc \in {"raster", "fragment", "point"} =>
       /\ Len(transformed_vertices) = Len(vertex_arrays)
       /\ Len(triangles) = Len(vertex_arrays) \div 3
       /\ \A k \in 1..Len(triangles) :
            triangles[k] = << transformed_vertices[3 * k - 2],
                              transformed_vertices[3 * k - 1],
                              transformed_vertices[3 * k] >>
       /\ \A j \in 1..Len(frag_tri) : frag_tri[j] \in 1..(Len(vertex_arrays) \div 3)
  /\ Len(vertex_arrays) < 3 =>
       /\ pc # "point"
       /\ fragments = << >>
       /\ writes = NoWrites

\* a mesh of five vertices: the one triangle is being written, the two
\* vertices left over gave nothing
TrailingVerticesIgnored ==
  /\ pc = "point"
  /\ Len(vertex_arrays) = 5
  /\ Len(triangles) = 1
  /\ Head(frag_tri) = 1

====
